---------------------------- MODULE Spec2Model ----------------------------
(***************************************************************************)
(* A model of imputime (src/imputime/tempute.py, src/imputime/utils.py):   *)
(* gap filling, resampling and extrapolation of a (date, value) table.     *)
(*                                                                         *)
(* Dates are midnight timestamps, modelled as day ordinals counted from    *)
(* 2000-01-01 (= 0) in the proleptic Gregorian calendar.  Numbers are      *)
(* exact: a number is (n/d) * (rn/rd)^(en/ed), or NaN; floating point      *)
(* rounding is not modelled.  The value column is named "value".           *)
(* pandas' 'M' and 'Y' range frequencies are month end and year end.       *)
(***************************************************************************)
EXTENDS Integers, Sequences, FiniteSets, TLC

VARIABLES dataset, call, data, result

vars == <<dataset, call, data, result>>

(***************************************************************************)
(* Bounds of the model.                                                    *)
(***************************************************************************)
MaxLen == 3
MaxValue == 2
MaxFuture == 2
MaxPast == 2
MaxDays == 60

(***************************************************************************)
(* Calendar arithmetic (what pandas does for Timestamp, Period, DateOffset *)
(* and date_range).                                                        *)
(***************************************************************************)
IsLeap(y) == y % 4 = 0 /\ (y % 100 # 0 \/ y % 400 = 0)

LeapsBefore(y) == ((y - 1) \div 4) - ((y - 1) \div 100) + ((y - 1) \div 400)

DaysBeforeYear(y) == 365 * (y - 2000) + LeapsBefore(y) - LeapsBefore(2000)

DaysInMonth(y, m) ==
    IF m = 2 THEN (IF IsLeap(y) THEN 29 ELSE 28)
    ELSE IF m \in {4, 6, 9, 11} THEN 30 ELSE 31

DaysBeforeMonth(y, m) ==
    <<0, 31, 59, 90, 120, 151, 181, 212, 243, 273, 304, 334>>[m]
        + (IF m > 2 /\ IsLeap(y) THEN 1 ELSE 0)

Ord(y, m, d) == DaysBeforeYear(y) + DaysBeforeMonth(y, m) + d - 1

\* the year of a date from 2000 on: o \div 366 years after 2000, or one more
YearOf(o) ==
    LET y == 2000 + (o \div 366)
    IN  IF o < DaysBeforeYear(y + 1) THEN y ELSE y + 1

MonthOf(o) ==
    LET y == YearOf(o)
        r == o - DaysBeforeYear(y)
    IN  CHOOSE m \in 1..12 : DaysBeforeMonth(y, m) <= r /\ r < DaysBeforeMonth(y, m) + DaysInMonth(y, m)

DayOf(o) == o - DaysBeforeYear(YearOf(o)) - DaysBeforeMonth(YearOf(o), MonthOf(o)) + 1

\* dt.to_period('M') and dt.to_period('Y'), as the period's ordinal
MonthPeriod(o) == YearOf(o) * 12 + MonthOf(o) - 1

YearPeriod(o) == YearOf(o)

\* the last day of a month period, and of a year: the dates of freq 'M' and 'Y'
MonthEnd(p) == Ord(p \div 12, (p % 12) + 1, DaysInMonth(p \div 12, (p % 12) + 1))

YearEnd(y) == Ord(y, 12, 31)

Min(a, b) == IF a <= b THEN a ELSE b

\* date + pd.DateOffset(months=n): the day of month is kept where the month has it
AddMonths(o, n) ==
    LET p == MonthPeriod(o) + n
        y == p \div 12
        m == (p % 12) + 1
    IN  Ord(y, m, Min(DayOf(o), DaysInMonth(y, m)))

\* date + pd.DateOffset(years=n)
AddYears(o, n) ==
    LET y == YearOf(o) + n
        m == MonthOf(o)
    IN  Ord(y, m, Min(DayOf(o), DaysInMonth(y, m)))

\* the dates of a unit from start to end, by the test each date has to pass
date_range_by(start, end, time_units, Within(_)) ==
    LET first == IF time_units = "days" THEN start
                 ELSE IF time_units = "months" THEN MonthPeriod(start) ELSE YearPeriod(start)
        last == IF time_units = "days" THEN end
                ELSE IF time_units = "months" THEN MonthPeriod(end) ELSE YearPeriod(end)
        n == IF end >= start THEN last - first + 1 ELSE 0
        all == [i \in 1..n |-> IF time_units = "days" THEN first + i - 1
                               ELSE IF time_units = "months" THEN MonthEnd(first + i - 1)
                               ELSE YearEnd(first + i - 1)]
    IN  SelectSeq(all, Within)

\* pd.date_range(start, end, freq=, inclusive='both')
date_range_both(start, end, time_units) ==
    date_range_by(start, end, time_units, LAMBDA e : start <= e /\ e <= end)

\* pd.date_range(start, end, freq=, inclusive='neither')
date_range_neither(start, end, time_units) ==
    date_range_by(start, end, time_units, LAMBDA e : start < e /\ e < end)

\* pd.date_range(start=, end=, freq=, inclusive='left')
date_range_left(start, end, time_units) ==
    IF time_units = "days"
    THEN [i \in 1..(IF end > start THEN end - start ELSE 0) |-> start + i - 1]
    ELSE IF time_units = "months"
    THEN LET p0 == MonthPeriod(start)
             n == IF end >= start THEN MonthPeriod(end) - p0 + 1 ELSE 0
             all == [i \in 1..n |-> MonthEnd(p0 + i - 1)]
         IN  SelectSeq(all, LAMBDA e : start <= e /\ e < end)
    ELSE LET y0 == YearPeriod(start)
             n == IF end >= start THEN YearPeriod(end) - y0 + 1 ELSE 0
             all == [i \in 1..n |-> YearEnd(y0 + i - 1)]
         IN  SelectSeq(all, LAMBDA e : start <= e /\ e < end)

\* pd.date_range(start, periods=, freq=, inclusive='both')
date_range_periods(start, periods, time_units) ==
    IF time_units = "days" THEN [i \in 1..periods |-> start + i - 1]
    ELSE IF time_units = "months" THEN [i \in 1..periods |-> MonthEnd(MonthPeriod(start) + i - 1)]
    ELSE [i \in 1..periods |-> YearEnd(YearPeriod(start) + i - 1)]

(***************************************************************************)
(* Numbers.                                                                *)
(***************************************************************************)
Abs(x) == IF x < 0 THEN -x ELSE x

RECURSIVE GCD(_, _)
GCD(a, b) == IF b = 0 THEN a ELSE GCD(b, a % b)

RECURSIVE IntPow(_, _)
IntPow(b, e) == IF e = 0 THEN 1 ELSE b * IntPow(b, e - 1)

\* the rational n/d (d > 0) in lowest terms
Rat(n, d) ==
    LET g == GCD(Abs(n), d)
    IN  [nan |-> FALSE, n |-> n \div g, d |-> d \div g, rn |-> 1, rd |-> 1, en |-> 0, ed |-> 1]

NaN == [nan |-> TRUE, n |-> 0, d |-> 1, rn |-> 1, rd |-> 1, en |-> 0, ed |-> 1]

IsRat(x) == ~x.nan /\ x.en = 0

Add(x, y) == IF x.nan \/ y.nan THEN NaN ELSE Rat(x.n * y.d + y.n * x.d, x.d * y.d)

Sub(x, y) == IF x.nan \/ y.nan THEN NaN ELSE Rat(x.n * y.d - y.n * x.d, x.d * y.d)

\* x * k and x / k for an integer k (k > 0 in the division)
MulInt(x, k) == IF x.nan THEN NaN ELSE Rat(x.n * k, x.d)

DivInt(x, k) == IF x.nan THEN NaN ELSE Rat(x.n, x.d * k)

\* x / y for rationals x and y > 0
Div(x, y) == IF x.nan \/ y.nan THEN NaN ELSE Rat(x.n * y.d, x.d * y.n)

\* x ** (1 / k) for a rational x > 0 and an integer k > 0
Root(x, k) ==
    IF x.nan THEN NaN
    ELSE IF k = 1 \/ (x.n = 1 /\ x.d = 1) THEN x
    ELSE [nan |-> FALSE, n |-> 1, d |-> 1, rn |-> x.n, rd |-> x.d, en |-> 1, ed |-> k]

\* x ** m for an integer m >= 0; nan ** 0 is 1.0
Pow(x, m) ==
    IF m = 0 THEN Rat(1, 1)
    ELSE IF x.nan THEN NaN
    ELSE LET g == GCD(x.en * m, x.ed)
             e == (x.en * m) \div g
             f == x.ed \div g
         IN  IF x.en = 0 THEN Rat(IntPow(x.n, m), IntPow(x.d, m))
             ELSE IF f = 1
             THEN Rat(IntPow(x.n, m) * IntPow(x.rn, e), IntPow(x.d, m) * IntPow(x.rd, e))
             ELSE [Rat(IntPow(x.n, m), IntPow(x.d, m)) EXCEPT !.rn = x.rn, !.rd = x.rd, !.en = e, !.ed = f]

\* x * y for a rational x
Mul(x, y) ==
    IF x.nan \/ y.nan THEN NaN
    ELSE [Rat(x.n * y.n, x.d * y.d) EXCEPT !.rn = y.rn, !.rd = y.rd, !.en = y.en, !.ed = y.ed]

RECURSIVE SumSeq(_)
SumSeq(s) == IF s = <<>> THEN Rat(0, 1) ELSE Add(Head(s), SumSeq(Tail(s)))

\* np.mean of a column of rates: nan for an empty column
Mean(s) == IF s = <<>> THEN NaN ELSE DivInt(SumSeq(s), Len(s))

(***************************************************************************)
(* Tables: a set of column names and a sequence of rows, a row being a     *)
(* function from the column names.                                         *)
(***************************************************************************)
Frame(cols, rows) == [cols |-> cols, rows |-> rows]

Row(d, v) == [date |-> d, value |-> v]

Column(frame, c) == [i \in 1..Len(frame.rows) |-> frame.rows[i][c]]

\* the outcome of a call: a table, or the error raised
Returned(rows) == [kind |-> "table", err |-> "", rows |-> rows]

Raised(err) == [kind |-> "error", err |-> err, rows |-> <<>>]

NoResult == [kind |-> "none", err |-> "", rows |-> <<>>]

TimeUnits == {"days", "months", "years", "weeks"}

RateTypes == {"linear", "exponential", "cubic"}

(***************************************************************************)
(* utils.py                                                                *)
(***************************************************************************)
\* dataset[(dataset['date'] >= start_date) & (dataset['date'] <= end_date)]
filter_data(frame, start_date, end_date) ==
    Frame(frame.cols, SelectSeq(frame.rows, LAMBDA r : r.date >= start_date /\ r.date <= end_date))

\* dataset['date'].diff().dropna(), in days or in month or year periods
DateDiffs(frame, time_units) ==
    LET dates == Column(frame, "date")
        P(o) == IF time_units = "days" THEN o
                ELSE IF time_units = "months" THEN MonthPeriod(o) ELSE YearPeriod(o)
    IN  [i \in 1..(Len(dates) - 1) |-> P(dates[i + 1]) - P(dates[i])]

\* gap_check with "larger than one unit" read as "one unit or more"
Gaps_from_one(frame, time_units) == SelectSeq(DateDiffs(frame, time_units), LAMBDA x : x >= 1)

\* the gaps list of gap_check
Gaps(frame, time_units) == SelectSeq(DateDiffs(frame, time_units), LAMBDA x : x > 1)

\* gap_check: the error it raises, or "" when it returns
gap_check(frame, time_units) ==
    IF time_units \notin {"days", "months", "years"} THEN "UnsupportedUnit"
    ELSE IF "date" \notin frame.cols THEN "KeyError"
    ELSE IF Gaps(frame, time_units) # <<>> THEN "GapError"
    ELSE ""


\* a step of a pipeline: the frame so far and the error raised, "" for none
Ok(frame) == [frame |-> frame, err |-> ""]

Fail(frame, err) == [frame |-> frame, err |-> err]

\* pandas' NaT, below every timestamp
NaT == Ord(2000, 1, 1) - 1

\* add_bounds: shift(-1), dropna on end_date, rename to start_*
add_bounds(frame) ==
    Ok(Frame((frame.cols \ {"date", "value"}) \cup {"start_date", "start_value", "end_date", "end_value"},
             [i \in 1..(Len(frame.rows) - 1) |->
                 [start_date |-> frame.rows[i].date, start_value |-> frame.rows[i].value,
                  end_date |-> frame.rows[i + 1].date, end_value |-> frame.rows[i + 1].value]]))

\* dataset[col] = dataset.apply(f, axis=1): one more column, f applied to each row
WithColumn(frame, col, f(_)) ==
    Frame(frame.cols \cup {col}, [i \in 1..Len(frame.rows) |-> (col :> f(frame.rows[i])) @@ frame.rows[i]])

\* add_daterange: no column for an unsupported unit; apply on an empty frame
\* gives a frame, which cannot be set as one column
add_daterange(frame, time_units) ==
    IF time_units \notin {"days", "months", "years"} THEN Ok(frame)
    ELSE IF frame.rows = <<>> THEN Fail(frame, "ValueError")
    ELSE Ok(WithColumn(frame, "date_range", LAMBDA x : date_range_left(x.start_date, x.end_date, time_units)))

\* add_timesteps
add_timesteps(frame) ==
    IF frame.rows = <<>> THEN Fail(frame, "ValueError")
    ELSE IF "date_range" \notin frame.cols THEN Fail(frame, "KeyError")
    ELSE Ok(WithColumn(frame, "timesteps", LAMBDA x : Len(x.date_range)))

\* date_delta
date_delta(time_units, date, timesteps) ==
    IF time_units = "days" THEN date + timesteps
    ELSE IF time_units = "months" THEN AddMonths(date, timesteps)
    ELSE AddYears(date, timesteps)

RateColumn(rate_type) == IF rate_type = "linear" THEN "linear_rate_value" ELSE "exponential_rate_value"

InterpolatedColumn(rate_type) ==
    IF rate_type = "linear" THEN "interpolated_linear_value" ELSE "interpolated_exponential_value"

\* the rate of one row
linear_rate(x) == DivInt(Sub(x.end_value, x.start_value), x.timesteps)

exponential_rate(x) == Root(Div(x.end_value, x.start_value), x.timesteps)

\* add_rate: no column for an unsupported rate type.  On an empty frame apply
\* gives, by the pandas version, a frame (the assignment raises) or an empty
\* column: empty_apply is "raise" or "nan".  A row's cells are Python numbers,
\* so a division by timesteps = 0 raises.
add_rate(frame, rate_type, empty_apply) ==
    IF rate_type \notin {"linear", "exponential"} THEN Ok(frame)
    ELSE IF frame.rows = <<>>
    THEN (IF empty_apply = "raise" THEN Fail(frame, "ValueError")
          ELSE Ok(Frame(frame.cols \cup {RateColumn(rate_type)}, <<>>)))
    ELSE IF \E i \in 1..Len(frame.rows) : frame.rows[i].timesteps = 0
    THEN Fail(frame, "ZeroDivisionError")
    ELSE IF rate_type = "linear" THEN Ok(WithColumn(frame, "linear_rate_value", linear_rate))
    ELSE Ok(WithColumn(frame, "exponential_rate_value", exponential_rate))

\* start_value + rate * n for n in range(1, timesteps + 1)
linear_values_from_one(x) == [i \in 1..x.timesteps |-> Add(x.start_value, MulInt(x.linear_rate_value, i))]

\* the interpolated values of one row: element n for n in range(timesteps)
linear_values(x) == [i \in 1..x.timesteps |-> Add(x.start_value, MulInt(x.linear_rate_value, i - 1))]

exponential_values(x) == [i \in 1..x.timesteps |-> Mul(x.start_value, Pow(x.exponential_rate_value, i - 1))]

\* add_interpolated_values
add_interpolated_values(frame, rate_type) ==
    IF rate_type = "linear" THEN Ok(WithColumn(frame, "interpolated_linear_value", linear_values))
    ELSE IF rate_type = "exponential"
    THEN Ok(WithColumn(frame, "interpolated_exponential_value", exponential_values))
    ELSE Ok(frame)

(***************************************************************************)
(* tempute.py                                                              *)
(***************************************************************************)
\* Series.explode of one cell: its elements, or one NaN for an empty list
Explode(cell, nan) == IF cell = <<>> THEN <<nan>> ELSE cell

RECURSIVE Flatten(_)
Flatten(ss) == IF ss = <<>> THEN <<>> ELSE Head(ss) \o Flatten(Tail(ss))

\* interpolated_dataset: the two exploded columns side by side
interpolated_dataset(frame, rate_type) ==
    LET dates == Flatten([i \in 1..Len(frame.rows) |-> Explode(frame.rows[i].date_range, NaT)])
        values == Flatten([i \in 1..Len(frame.rows) |->
                      Explode(frame.rows[i][InterpolatedColumn(rate_type)], NaN)])
    IN  [i \in 1..Len(dates) |-> Row(dates[i], values[i])]

\* bind of two pipeline steps
Then(st, F(_)) == IF st.err # "" THEN st ELSE F(st.frame)

\* dataset[dataset['date'] == dataset['date'].max()]
LastRow(frame) ==
    SelectSeq(frame.rows, LAMBDA r : \A i \in 1..Len(frame.rows) : frame.rows[i].date <= r.date)

\* the body shared by fill_gaps (lines 19-27), yearly_to_monthly (43-51) and
\* monthly_to_daily (67-75): the frame as the call leaves it, and the outcome
Interpolate(frame, rate_type, time_units) ==
    LET last_row == LastRow(frame)
        s1 == add_bounds(frame)
        s2 == Then(s1, LAMBDA f : add_daterange(f, time_units))
        s3 == Then(s2, add_timesteps)
        s4 == Then(s3, LAMBDA f : add_rate(f, rate_type, "raise"))
        s5 == Then(s4, LAMBDA f : add_interpolated_values(f, rate_type))
    IN  IF s5.err # "" THEN [frame |-> s5.frame, result |-> Raised(s5.err)]
        ELSE IF InterpolatedColumn(rate_type) \notin s5.frame.cols
        THEN [frame |-> s5.frame, result |-> Raised("KeyError")]
        ELSE [frame |-> s5.frame,
              result |-> Returned(interpolated_dataset(s5.frame, rate_type) \o last_row)]


\* what a call leaves: the caller's table, the frame it worked on, the outcome
Outcome(caller, work, res) == [dataset |-> caller, data |-> work, result |-> res]

\* fill_gaps with gap_check(dataset, time_units) ahead of the filling
fill_gaps_checked(frame, rate_type, time_units) ==
    IF "date" \notin frame.cols THEN Outcome(frame, frame, Raised("KeyError"))
    ELSE LET g == gap_check(frame, time_units)
             r == Interpolate(frame, rate_type, time_units)
         IN  IF g # "" THEN Outcome(frame, frame, Raised(g))
             ELSE Outcome(r.frame, r.frame, r.result)

\* fill_gaps works on the caller's table itself
fill_gaps(frame, rate_type, time_units) ==
    IF "date" \notin frame.cols THEN Outcome(frame, frame, Raised("KeyError"))
    ELSE LET r == Interpolate(frame, rate_type, time_units)
         IN  Outcome(r.frame, r.frame, r.result)

\* yearly_to_monthly: gap_check(dataset, 'months'), then a copy filled by months
yearly_to_monthly(frame, rate_type) ==
    LET g == gap_check(frame, "months")
        r == Interpolate(frame, rate_type, "months")
    IN  IF g # "" THEN Outcome(frame, frame, Raised(g))
        ELSE Outcome(frame, r.frame, r.result)

\* monthly_to_daily: gap_check(dataset, 'months'), then a copy filled by days
monthly_to_daily(frame, rate_type) ==
    LET g == gap_check(frame, "months")
        r == Interpolate(frame, rate_type, "days")
    IN  IF g # "" THEN Outcome(frame, frame, Raised(g))
        ELSE Outcome(frame, r.frame, r.result)

\* extrapolated_dataset
extrapolated_dataset(rate_type, time_units, rate, start_date, start_value, future_timesteps) ==
    LET dates == date_range_periods(start_date, future_timesteps + 1, time_units)
        values == IF rate_type = "linear"
                  THEN [i \in 1..(future_timesteps + 1) |-> Add(start_value, MulInt(rate, i - 1))]
                  ELSE [i \in 1..(future_timesteps + 1) |-> Mul(start_value, Pow(rate, i - 1))]
    IN  [i \in 1..(future_timesteps + 1) |-> Row(dates[i], values[i])]

\* extrapolate_data['timesteps'] = 1
WithTimesteps1(frame) ==
    Frame(frame.cols \cup {"timesteps"}, [i \in 1..Len(frame.rows) |-> ("timesteps" :> 1) @@ frame.rows[i]])

\* lines 115-117: the rows the rate is estimated from
RateWindow(frame, time_units, start_date, past_timesteps) ==
    filter_data(frame, date_delta(time_units, start_date, past_timesteps), start_date)

\* extrapolate works on a copy
extrapolate(frame, rate_type, time_units, start_date, future_timesteps, past_timesteps, empty_apply) ==
    IF "date" \notin frame.cols THEN Outcome(frame, frame, Raised("KeyError"))
    ELSE IF \A i \in 1..Len(frame.rows) : frame.rows[i].date # start_date
    THEN Outcome(frame, frame, Raised("IndexError"))
    ELSE IF time_units \notin {"days", "months", "years"}
    THEN Outcome(frame, frame, Raised("UnboundLocalError"))
    ELSE LET start_value == SelectSeq(frame.rows, LAMBDA r : r.date = start_date)[1].value
             window == RateWindow(frame, time_units, start_date, past_timesteps)
             g == gap_check(window, time_units)
             s1 == add_bounds(window)
             s2 == Then(s1, LAMBDA f : Ok(WithTimesteps1(f)))
             s3 == Then(s2, LAMBDA f : add_rate(f, rate_type, empty_apply))
         IN  IF g # "" THEN Outcome(frame, window, Raised(g))
             ELSE IF s3.err # "" THEN Outcome(frame, s3.frame, Raised(s3.err))
             ELSE IF rate_type \notin {"linear", "exponential"}
             THEN Outcome(frame, s3.frame, Raised("KeyError"))
             ELSE Outcome(frame, s3.frame,
                      Returned(extrapolated_dataset(rate_type, time_units,
                                   Mean(Column(s3.frame, RateColumn(rate_type))),
                                   start_date, start_value, future_timesteps)))

(***************************************************************************)
(* The caller: a table, and calls on it.                                   *)
(***************************************************************************)
Values == 1..MaxValue

DatePool ==
    {Ord(2020, 1, 1), Ord(2020, 1, 31), Ord(2020, 2, 1),
     Ord(2020, 3, 1), Ord(2021, 1, 1), Ord(2022, 1, 1)}

GapDatePool == DatePool \cup {Ord(2020, 1, 2), Ord(2020, 1, 3)}

\* a date no table holds
AbsentDate == Ord(2019, 6, 15)

RawFrame(dates, values) ==
    Frame({"date", "value"}, [i \in 1..Len(dates) |-> Row(dates[i], Rat(values[i], 1))])

SortedSeq(S) ==
    CHOOSE s \in [1..Cardinality(S) -> S] : \A i \in 1..(Cardinality(S) - 1) : s[i] < s[i + 1]

NoCall ==
    [op |-> "none", arg |-> Frame({}, <<>>), rate_type |-> "", time_units |-> "",
     start_date |-> 0, future_timesteps |-> 0, past_timesteps |-> 0]

Called(op, rate_type, time_units) ==
    [NoCall EXCEPT !.op = op, !.arg = dataset, !.rate_type = rate_type, !.time_units = time_units]

Finish(out) ==
    /\ dataset' = out.dataset
    /\ data' = out.data
    /\ result' = out.result

\* a table of the input contract: sorted by date, one row per date
Init ==
    /\ \E S \in SUBSET DatePool :
          /\ Cardinality(S) \in 1..MaxLen
          /\ LET dates == SortedSeq(S)
             IN  \E v \in [1..Cardinality(S) -> Values] : dataset = RawFrame(dates, v)
    /\ call = NoCall
    /\ data = Frame({}, <<>>)
    /\ result = NoResult

\* a table in any order of dates, duplicates included
InitGap ==
    /\ \E n \in 1..MaxLen : \E d \in [1..n -> GapDatePool], v \in Values :
          dataset = RawFrame(d, [i \in 1..n |-> v])
    /\ call = NoCall
    /\ data = Frame({}, <<>>)
    /\ result = NoResult

\* A call reads the table and its arguments only, so the caller calls on a
\* table no call has been made on, or on one the last call changed: a call on
\* a table the last call left as it was begins from a state already covered.
Fresh == IF call.op = "none" THEN TRUE ELSE dataset # call.arg

GapCheck ==
    /\ Fresh
    /\ \E time_units \in TimeUnits :
        /\ call' = Called("gap_check", "", time_units)
        /\ LET g == gap_check(dataset, time_units)
           IN  Finish(Outcome(dataset, dataset, IF g = "" THEN Returned(<<>>) ELSE Raised(g)))

\* the days from the first row's date to the last row's
Span(frame) ==
    IF "date" \in frame.cols /\ frame.rows # <<>>
    THEN frame.rows[Len(frame.rows)].date - frame.rows[1].date
    ELSE 0

FillGaps ==
    /\ Fresh
    /\ \E rate_type \in RateTypes, time_units \in TimeUnits :
        /\ time_units = "days" => Span(dataset) <= MaxDays
        /\ call' = Called("fill_gaps", rate_type, time_units)
        /\ Finish(fill_gaps(dataset, rate_type, time_units))

YearlyToMonthly ==
    /\ Fresh
    /\ \E rate_type \in RateTypes :
        /\ call' = Called("yearly_to_monthly", rate_type, "")
        /\ Finish(yearly_to_monthly(dataset, rate_type))

MonthlyToDaily ==
    /\ Fresh
    /\ \E rate_type \in RateTypes :
        /\ call' = Called("monthly_to_daily", rate_type, "")
        /\ Finish(monthly_to_daily(dataset, rate_type))

StartDates == IF "date" \in dataset.cols THEN {dataset.rows[i].date : i \in 1..Len(dataset.rows)} \cup {AbsentDate}
              ELSE {AbsentDate}

Extrapolate ==
    /\ Fresh
    /\ \E rate_type \in RateTypes, time_units \in TimeUnits, start_date \in StartDates,
       future_timesteps \in 0..MaxFuture, past_timesteps \in (-MaxPast)..MaxPast,
       empty_apply \in {"raise", "nan"} :
        /\ call' = [Called("extrapolate", rate_type, time_units) EXCEPT
                        !.start_date = start_date, !.future_timesteps = future_timesteps,
                        !.past_timesteps = past_timesteps]
        /\ Finish(extrapolate(dataset, rate_type, time_units, start_date,
                              future_timesteps, past_timesteps, empty_apply))

Next == GapCheck \/ FillGaps \/ YearlyToMonthly \/ MonthlyToDaily

NextExtrapolate == Extrapolate

NextGap == GapCheck

Spec == Init /\ [][Next]_vars

SpecGap == InitGap /\ [][NextGap]_vars

SpecExtrapolate == Init /\ [][NextExtrapolate]_vars

(***************************************************************************)
(* Properties.                                                             *)
(***************************************************************************)
Supported == {"days", "months", "years"}

\* the table a call was made on, when it is a (date, value) table
ArgRows == call.arg.rows

\* the difference of two dates in days, calendar months or calendar years
UnitDiff(d1, d2, time_units) ==
    IF time_units = "days" THEN d2 - d1
    ELSE IF time_units = "months" THEN (YearOf(d2) - YearOf(d1)) * 12 + MonthOf(d2) - MonthOf(d1)
    ELSE YearOf(d2) - YearOf(d1)

\* the consecutive rows of a table, as pairs of dates
Steps(rows) == {<<rows[i].date, rows[i + 1].date>> : i \in 1..(Len(rows) - 1)}

HasGap(rows, time_units) == \E s \in Steps(rows) : UnitDiff(s[1], s[2], time_units) > 1

Contiguous(rows, time_units) == \A s \in Steps(rows) : UnitDiff(s[1], s[2], time_units) = 1

\* a contiguous series of at least three rows with one row that is not an
\* endpoint removed: one step of two units, where the row was, the others of one
OneRemoved(rows, time_units) ==
    \E j \in 1..(Len(rows) - 1) :
        /\ UnitDiff(rows[j].date, rows[j + 1].date, time_units) = 2
        /\ \A i \in 1..(Len(rows) - 1) :
              i # j => UnitDiff(rows[i].date, rows[i + 1].date, time_units) = 1

\* every step is a duplicate date, a decrease, or at most one unit
NoStepOverOne(rows, time_units) == \A s \in Steps(rows) : UnitDiff(s[1], s[2], time_units) <= 1

HasDuplicateOrDecrease(rows) == \E s \in Steps(rows) : s[2] <= s[1]

GapChecked == call.op = "gap_check" /\ call.time_units \in Supported

\* C1: gap_check at a unit raises the gap error exactly when two consecutive
\* rows differ by more than one unit (days, or month or year periods): it
\* passes on a contiguous series, fails on a contiguous series with one row
\* that is not an endpoint removed, and does not fail on a duplicate or a
\* decreasing date
C1_GapCheckIffStepOverOne ==
    GapChecked =>
        /\ (result = Raised("GapError")) <=> HasGap(ArgRows, call.time_units)
        /\ ~HasGap(ArgRows, call.time_units) => result = Returned(<<>>)
        /\ Contiguous(ArgRows, call.time_units) => result.kind = "table"
        /\ OneRemoved(ArgRows, call.time_units) => result = Raised("GapError")
        /\ NoStepOverOne(ArgRows, call.time_units) => result.kind = "table"

\* a month check that failed on three contiguous months with the middle one removed
C1_Witness ==
    /\ GapChecked
    /\ call.time_units = "months"
    /\ OneRemoved(ArgRows, "months")
    /\ result = Raised("GapError")

\* a day check that passed on a table with a duplicate date and a decreasing date
C1_DuplicatesPass ==
    /\ GapChecked
    /\ call.time_units = "days"
    /\ \E s \in Steps(ArgRows) : s[2] = s[1]
    /\ \E s \in Steps(ArgRows) : s[2] < s[1]
    /\ result.kind = "table"

Interpolators == {"fill_gaps", "yearly_to_monthly", "monthly_to_daily"}

RateModels == {"linear", "exponential"}

\* the unit whose dates a call generates
TargetUnit ==
    IF call.op = "yearly_to_monthly" THEN "months"
    ELSE IF call.op = "monthly_to_daily" THEN "days"
    ELSE call.time_units

\* the call was made on a (date, value) table, sorted by date, one row per date
OnSortedTable ==
    /\ "date" \in call.arg.cols
    /\ \A s \in Steps(ArgRows) : s[1] < s[2]

FinalObservation == ArgRows[Len(ArgRows)]

\* C2: yearly_to_monthly checks gaps in years: on one observation per
\* consecutive year (two or more) it returns a monthly table ending with the
\* final observation, and the gap error needs a step of more than one year
C2_YearlyToMonthlyChecksYears ==
    (call.op = "yearly_to_monthly" /\ OnSortedTable /\ call.rate_type \in RateModels) =>
        /\ (Len(ArgRows) >= 2 /\ Contiguous(ArgRows, "years")) =>
              /\ result.kind = "table"
              /\ result.rows[Len(result.rows)] = FinalObservation
        /\ result = Raised("GapError") => HasGap(ArgRows, "years")

TwoYearStep(rows) == \E s \in Steps(rows) : UnitDiff(s[1], s[2], "years") = 2

FilledByYears == call.op = "fill_gaps" /\ call.time_units = "years" /\ OnSortedTable

\* C3 as stated: fill_gaps by years on a series with a step of two years
\* raises the gap error
C3_FillGapsRaisesGapError ==
    (FilledByYears /\ TwoYearStep(ArgRows)) => result = Raised("GapError")

\* the year ends from the first date of the table up to, not including, its last
YearEndsWithin(rows) ==
    {YearEnd(y) : y \in {z \in YearOf(rows[1].date)..YearOf(rows[Len(rows)].date) :
                            rows[1].date <= YearEnd(z) /\ YearEnd(z) < rows[Len(rows)].date}}

EveryStepHolds(rows, P(_, _)) == \A s \in Steps(rows) : \E d \in s[1]..(s[2] - 1) : P(s[1], d)

IsYearEnd(start, d) == MonthOf(d) = 12 /\ DayOf(d) = 31

\* C3 amended: fill_gaps by years on a series with a step of two years raises
\* no gap error; with a rate model and a year end in every segment it returns
\* the year ends from the first date on, each once, then the final observation
C3_FillGapsFillsTwoYearStep ==
    (FilledByYears /\ TwoYearStep(ArgRows)) =>
        /\ result # Raised("GapError")
        /\ (call.rate_type \in RateModels /\ EveryStepHolds(ArgRows, IsYearEnd)) =>
              /\ result.kind = "table"
              /\ Len(result.rows) = Cardinality(YearEndsWithin(ArgRows)) + 1
              /\ {result.rows[i].date : i \in 1..(Len(result.rows) - 1)} = YearEndsWithin(ArgRows)
              /\ result.rows[Len(result.rows)] = FinalObservation

\* 2020-01-01 and 2022-01-01 filled by years: 2020-12-31, 2021-12-31, 2022-01-01
C3_Witness ==
    /\ FilledByYears
    /\ Len(ArgRows) = 2
    /\ TwoYearStep(ArgRows)
    /\ result.kind = "table"
    /\ Len(result.rows) = 3

\* C6: no call changes the caller's table, whether it returns or raises
C6_CallerTableUnchanged == call.op # "none" => dataset = call.arg

Interpolated == call.op \in Interpolators /\ OnSortedTable /\ result.kind = "table"

\* the rows of the frame the call worked on, one per segment
Segments == data.rows

\* C7: on a sorted table of distinct dates the returned table has strictly
\* increasing dates, every generated date of a segment is in [start, end), and
\* the last row is the final observation, found there only
C7_SortedWithinSegmentsEndsWithFinal ==
    Interpolated =>
        /\ \A s \in Steps(result.rows) : s[1] < s[2]
        /\ \A k \in 1..Len(Segments) : \A j \in 1..Len(Segments[k].date_range) :
              /\ Segments[k].start_date <= Segments[k].date_range[j]
              /\ Segments[k].date_range[j] < Segments[k].end_date
        /\ result.rows[Len(result.rows)] = FinalObservation
        /\ Cardinality({i \in 1..Len(result.rows) : result.rows[i] = FinalObservation}) = 1
        /\ Cardinality({i \in 1..Len(result.rows) : result.rows[i].date = FinalObservation.date}) = 1

\* three observations filled by months, two dates or more generated in a segment
C7_Witness ==
    /\ Interpolated
    /\ call.op = "fill_gaps"
    /\ call.time_units = "months"
    /\ Len(ArgRows) = 3
    /\ \E k \in 1..Len(Segments) : Len(Segments[k].date_range) >= 2

\* C8: the returned table passes gap_check at the unit it was filled at,
\* whatever the gaps of the input
C8_OutputPassesGapCheck ==
    Interpolated => gap_check(Frame({"date", "value"}, result.rows), TargetUnit) = ""

\* an input with a gap at the target unit, filled
C8_Witness ==
    /\ Interpolated
    /\ HasGap(ArgRows, TargetUnit)
    /\ Len(result.rows) > Len(ArgRows)

\* C9: every segment's dates start at the segment's start date, so every
\* input observation is a row of the returned table, for every unit
C9_EveryObservationKept ==
    Interpolated =>
        /\ \A k \in 1..Len(Segments) : Segments[k].date_range[1] = Segments[k].start_date
        /\ \A i \in 1..Len(ArgRows) : \E j \in 1..Len(result.rows) : result.rows[j] = ArgRows[i]

\* the dates of the target unit in [start, end): days, month ends, year ends
UnitDates(start, end, time_units) ==
    {d \in start..(end - 1) :
        \/ time_units = "days"
        \/ time_units = "months" /\ MonthOf(d + 1) # MonthOf(d)
        \/ time_units = "years" /\ YearOf(d + 1) # YearOf(d)}

\* v0 * (v1 / v0) ** (n / k) for integers v0, v1 > 0 and 0 <= n < k
ExponentialPoint(v0, v1, n, k) ==
    LET g == GCD(n, k)
        r == GCD(v1, v0)
    IN  IF n = 0 \/ v1 = v0
        THEN [nan |-> FALSE, n |-> v0, d |-> 1, rn |-> 1, rd |-> 1, en |-> 0, ed |-> 1]
        ELSE [nan |-> FALSE, n |-> v0, d |-> 1, rn |-> v1 \div r, rd |-> v0 \div r,
              en |-> n \div g, ed |-> k \div g]

\* C10: a segment from v0 to v1 has as many values as dates, k of each, the
\* target unit's dates in [start, end); value 0 is v0, value n is
\* v0 + n * (v1 - v0) / k or v0 * ((v1 / v0) ** (1 / k)) ** n, and the rule
\* continued to n = k gives v1
C10_SegmentValues ==
    (Interpolated /\ call.rate_type \in RateModels) =>
        \A s \in 1..Len(Segments) :
            LET x == Segments[s]
                v0 == x.start_value.n
                v1 == x.end_value.n
                k == Cardinality(UnitDates(x.start_date, x.end_date, TargetUnit))
                values == x[InterpolatedColumn(call.rate_type)]
            IN  /\ Len(values) = k
                /\ Len(x.date_range) = k
                /\ x.timesteps = k
                /\ values[1] = x.start_value
                /\ \A i \in 1..k :
                      IF call.rate_type = "linear"
                      THEN /\ IsRat(values[i])
                           /\ values[i].n * k = (v0 * k + (i - 1) * (v1 - v0)) * values[i].d
                      ELSE values[i] = ExponentialPoint(v0, v1, i - 1, k)
                /\ IF call.rate_type = "linear"
                   THEN Add(x.start_value, MulInt(x.linear_rate_value, k)) = x.end_value
                   ELSE Mul(x.start_value, Pow(x.exponential_rate_value, k)) = x.end_value

\* an exponential segment of two steps or more between different values
C10_Witness ==
    /\ Interpolated
    /\ call.rate_type = "exponential"
    /\ \E s \in 1..Len(Segments) :
          /\ Segments[s].timesteps >= 2
          /\ Segments[s].start_value # Segments[s].end_value

Extrapolated == call.op = "extrapolate" /\ OnSortedTable

AnchorValue == SelectSeq(ArgRows, LAMBDA r : r.date = call.start_date)[1].value

\* the additive steps between consecutive values
ValueSteps(rows) == {rows[i + 1].value.n - rows[i].value.n : i \in 1..(Len(rows) - 1)}

\* the observations dated from p units before the anchor up to the anchor
Lookback(rows, time_units, start_date, p) ==
    SelectSeq(rows, LAMBDA r : r.date <= start_date /\ UnitDiff(r.date, start_date, time_units) <= p)

\* C4: with past_timesteps = p >= 1 the rate is estimated from the
\* observations from p units before the anchor up to the anchor, one segment
\* per consecutive pair, and on a contiguous series of constant step c, linear,
\* anchored at the last date, the values returned are v0, v0 + c, ..., v0 + f * c
C4_LookbackEndsAtAnchor ==
    (/\ Extrapolated
     /\ call.past_timesteps >= 1
     /\ call.rate_type = "linear"
     /\ call.time_units \in Supported
     /\ Len(ArgRows) >= 2
     /\ Contiguous(ArgRows, call.time_units)
     /\ call.start_date = FinalObservation.date) =>
        /\ result.kind = "table"
        /\ Len(data.rows) =
              Len(Lookback(ArgRows, call.time_units, call.start_date, call.past_timesteps)) - 1
        /\ \A c \in ValueSteps(ArgRows) :
              ValueSteps(ArgRows) = {c} =>
                  \A i \in 1..Len(result.rows) :
                      result.rows[i].value = Rat(AnchorValue.n + (i - 1) * c, 1)

\* C5: an extrapolate call that returns gives future_timesteps + 1 rows, row 0
\* with the anchor's value, row n with anchor + rate * n or anchor * rate ** n
\* for the mean rate of the window
C5_RowsFromAnchorValue ==
    (Extrapolated /\ result.kind = "table") =>
        LET rate == Mean(Column(data, RateColumn(call.rate_type)))
        IN  /\ Len(result.rows) = call.future_timesteps + 1
            /\ result.rows[1].value = AnchorValue
            /\ \A i \in 1..Len(result.rows) :
                  /\ IsRat(result.rows[i].value)
                  /\ result.rows[i].value =
                        IF call.rate_type = "linear"
                        THEN Add(AnchorValue, MulInt(rate, i - 1))
                        ELSE Mul(AnchorValue, Pow(rate, i - 1))

====
